---- MODULE Spec2Model ----
(***************************************************************************)
(* A model of the DNS stub server: the wire codec of dns_message.rs (header *)
(* codec, name codec, record codec, message assembly) as operators over    *)
(* byte sequences, and the server loop of lib.rs / main.rs as a state      *)
(* machine whose blocking points are the two recv_from calls.              *)
(*                                                                         *)
(* A byte is a number in 0..255, a buffer a sequence of bytes (offset o of *)
(* the Rust slice is index o + 1), a String the sequence of its UTF-8      *)
(* bytes.  A decoder that can panic returns a record with an ok field.     *)
(***************************************************************************)
EXTENDS Integers, Sequences, FiniteSets, TLC

VARIABLES
    \* the server (lib.rs run_dns_server, main.rs main)
    mode,           \* DnsServerMode: "resolving" | "forwarding"
    pc,             \* "recv" | "fwd_wait" | "crashed" | "hung"
    buf,            \* the receive buffer, declared once before the loop
    query,          \* handle_question_fwd: the decoded query
    fwd_responses,  \* handle_question_fwd: the decoded upstream replies
    fwd_from,       \* who sent each datagram recv_from(&mut fwd_buf) returned
    io,             \* the socket operations made for the current datagram
    nrecv,          \* client datagrams received so far
    cause,          \* what stopped the process, "" while it runs
    datagram,       \* the client datagram being handled
    sent_msg,       \* the DnsMessage last serialized as a client response
    \* deserialize_name_rec, one recursive call at a time
    n_raw, n_state, n_hops, n_first,
    \* Header::serialize then Header::deserialize
    h_in, h_wire, h_out, h_pc,
    \* DnsMessage::serialize then DnsMessage::deserialize
    m_in, m_wire, m_out, m_pc,
    \* serialize_name
    s_in, s_out, s_pc

serverVars ==
    <<mode, pc, buf, query, fwd_responses, fwd_from, io, nrecv, cause, datagram, sent_msg>>
nameVars == <<n_raw, n_state, n_hops, n_first>>
headerVars == <<h_in, h_wire, h_out, h_pc>>
msgVars == <<m_in, m_wire, m_out, m_pc>>
encVars == <<s_in, s_out, s_pc>>
vars == <<serverVars, nameVars, headerVars, msgVars, encVars>>

BufLen == 512

(***************************************************************************)
(* Bytes and bit flags                                                     *)
(***************************************************************************)
Byte == 0..255

\* raw[o] of the Rust slice
B(raw, o) == raw[o + 1]

\* u16::from_be_bytes([hi, lo])
U16(hi, lo) == hi * 256 + lo

\* u16::to_be_bytes
U16Bytes(n) == <<(n \div 256) % 256, n % 256>>

\* u32::to_be_bytes / u32::from_be_bytes
U32Bytes(n) == <<(n \div 16777216) % 256, (n \div 65536) % 256, (n \div 256) % 256, n % 256>>
U32(b3, b2, b1, b0) == b3 * 16777216 + b2 * 65536 + b1 * 256 + b0

\* GetBitFlag for u8 (bit_idx is always a literal below 8 at the call sites)
get_bit_flag(byte, bit_idx) == (byte \div (2 ^ bit_idx)) % 2 = 1

\* AsBitFlag for bool
as_bit_flag(flag, bit_idx) == IF flag THEN 2 ^ bit_idx ELSE 0

\* the | of two u8
RECURSIVE BitOrFrom(_, _, _)
BitOrFrom(a, b, i) ==
    IF i > 7 THEN 0
    ELSE (IF get_bit_flag(a, i) \/ get_bit_flag(b, i) THEN 2 ^ i ELSE 0)
         + BitOrFrom(a, b, i + 1)
BitOr(a, b) == BitOrFrom(a, b, 0)

(***************************************************************************)
(* Header codec                                                            *)
(***************************************************************************)
OpQuery == [tag |-> "Query", v |-> 0]
OpIQuery == [tag |-> "IQuery", v |-> 0]
OpStatus == [tag |-> "Status", v |-> 0]
OpOther(v) == [tag |-> "Other", v |-> v]

RCodes == <<"NoError", "FormatError", "ServerFailure", "NameError", "NotImplemented", "Refused">>

deserialize_qr_ind(raw) ==
    IF (B(raw, 2) \div 128) % 2 = 1 THEN "Response" ELSE "Query"

serialize_qr_ind(qr_ind) ==
    ((IF qr_ind = "Query" THEN 0 ELSE 1) * 128) % 256

deserialize_op_code(raw) ==
    LET v == (B(raw, 2) \div 8) % 16
    IN CASE v = 0 -> OpQuery
         [] v = 1 -> OpIQuery
         [] v = 2 -> OpStatus
         [] OTHER -> OpOther(v)

\* a plausible slip: the raw value of Other is coerced to 0
serialize_op_code_lossy(op_code) ==
    ((CASE op_code.tag = "Query" -> 0
        [] op_code.tag = "IQuery" -> 1
        [] op_code.tag = "Status" -> 2
        [] OTHER -> 0) * 8) % 256

\* the u8 shift drops the bits shifted out of the byte
serialize_op_code(op_code) ==
    ((CASE op_code.tag = "Query" -> 0
        [] op_code.tag = "IQuery" -> 1
        [] op_code.tag = "Status" -> 2
        [] OTHER -> op_code.v) * 8) % 256

\* ok = FALSE is the panic "Unexpected RCODE value"
deserialize_r_code(raw) ==
    LET v == B(raw, 3) % 16
    IN IF v <= 5 THEN [ok |-> TRUE, r_code |-> RCodes[v + 1]]
       ELSE [ok |-> FALSE, r_code |-> "NoError"]

serialize_r_code(r_code) ==
    CHOOSE v \in 0..5 : RCodes[v + 1] = r_code

NoHeader ==
    [packet_id |-> 0, qr_ind |-> "Query", op_code |-> OpQuery,
     is_auth_ans |-> FALSE, is_trunc |-> FALSE, is_rec_desired |-> FALSE,
     is_rec_available |-> FALSE, r_code |-> "NoError",
     qd_count |-> 0, an_count |-> 0, ns_count |-> 0, ar_count |-> 0]

\* Header::deserialize
HeaderDeserialize(raw) ==
    LET rc == deserialize_r_code(raw)
    IN IF ~rc.ok THEN [ok |-> FALSE, header |-> NoHeader]
       ELSE [ok |-> TRUE,
             header |->
                [packet_id |-> U16(B(raw, 0), B(raw, 1)),
                 qr_ind |-> deserialize_qr_ind(raw),
                 op_code |-> deserialize_op_code(raw),
                 is_auth_ans |-> get_bit_flag(B(raw, 2), 2),
                 is_trunc |-> get_bit_flag(B(raw, 2), 1),
                 is_rec_desired |-> get_bit_flag(B(raw, 2), 0),
                 is_rec_available |-> get_bit_flag(B(raw, 3), 7),
                 r_code |-> rc.r_code,
                 qd_count |-> U16(B(raw, 4), B(raw, 5)),
                 an_count |-> U16(B(raw, 6), B(raw, 7)),
                 ns_count |-> U16(B(raw, 8), B(raw, 9)),
                 ar_count |-> U16(B(raw, 10), B(raw, 11))]]

\* Serializable for Header: 12 bytes
HeaderSerialize(h) ==
    LET b2 == BitOr(serialize_qr_ind(h.qr_ind),
                BitOr(serialize_op_code(h.op_code),
                  BitOr(as_bit_flag(h.is_auth_ans, 2),
                    BitOr(as_bit_flag(h.is_trunc, 1), as_bit_flag(h.is_rec_desired, 0)))))
        b3 == BitOr(as_bit_flag(h.is_rec_available, 7), serialize_r_code(h.r_code))
    IN U16Bytes(h.packet_id) \o <<b2, b3>> \o U16Bytes(h.qd_count)
       \o U16Bytes(h.an_count) \o U16Bytes(h.ns_count) \o U16Bytes(h.ar_count)

(***************************************************************************)
(* Name codec                                                              *)
(***************************************************************************)
Dot == 46

\* str::split('.'): always at least one piece, "" gives one empty piece
RECURSIVE Split(_)
Split(s) ==
    IF \E i \in 1..Len(s) : s[i] = Dot
    THEN LET i == CHOOSE k \in 1..Len(s) : s[k] = Dot /\ \A j \in 1..(k - 1) : s[j] # Dot
         IN <<SubSeq(s, 1, i - 1)>> \o Split(SubSeq(s, i + 1, Len(s)))
    ELSE <<s>>

\* [&str]::join(".")
RECURSIVE Join(_)
Join(labels) ==
    IF labels = <<>> THEN <<>>
    ELSE IF Len(labels) = 1 THEN labels[1]
    ELSE labels[1] \o <<Dot>> \o Join(Tail(labels))

\* the length of the UTF-8 sequence a byte opens, 0 when it opens none
Utf8Len(b) ==
    CASE b < 128 -> 1
      [] b \in 194..223 -> 2
      [] b \in 224..239 -> 3
      [] b \in 240..244 -> 4
      [] OTHER -> 0

\* the values the byte after lead byte b may take
Utf8Second(b) ==
    CASE b = 224 -> 160..191
      [] b = 237 -> 128..159
      [] b = 240 -> 144..191
      [] b = 244 -> 128..143
      [] OTHER -> 128..191

\* std::str::from_utf8(..).is_ok(): every byte is ASCII, or opens a
\* complete sequence, or continues the sequence opened 1 to 3 bytes before
IsUtf8(s) ==
    \A i \in 1..Len(s) :
        IF s[i] \in 128..191
        THEN \E k \in 1..3 :
                /\ i - k >= 1
                /\ Utf8Len(s[i - k]) >= k + 1
                /\ \A j \in 1..(k - 1) : s[i - j] \in 128..191
        ELSE /\ Utf8Len(s[i]) >= 1
             /\ i + Utf8Len(s[i]) - 1 <= Len(s)
             /\ \A j \in 1..(Utf8Len(s[i]) - 1) :
                    s[i + j] \in (IF j = 1 THEN Utf8Second(s[i]) ELSE 128..191)

\* the labels of a name, each behind its length byte
RECURSIVE LabelBytes(_)
LabelBytes(labels) ==
    IF labels = <<>> THEN <<>>
    ELSE <<Len(labels[1]) % 256>> \o labels[1] \o LabelBytes(Tail(labels))

\* the bytes of a name split into labels; ok = FALSE is the panic "domain
\* name part length exceeded" (a label length that does not fit a u8)
LabelsSerialize(labels) ==
    [ok |-> \A i \in 1..Len(labels) : Len(labels[i]) <= 255,
     bytes |-> LabelBytes(labels) \o <<0>>]

\* a plausible slip: the name is not split, it goes out as one label
serialize_name_unsplit(input) == LabelsSerialize(<<input>>)

\* serialize_name: every piece of the split, then one zero byte
serialize_name(input) == LabelsSerialize(Split(input))

\* NameDeserializeState::new, with the outcome of the call in status
NameDeserializeState(pos) ==
    [pos |-> pos, end_pos |-> pos, skipped_to_offset |-> FALSE, labels |-> <<>>,
     status |-> "run"]

is_offset_ptr(val) == val >= 192 /\ (val \div 64) % 4 = 3

\* One call of deserialize_name_rec, up to its recursive call: status "done"
\* is the return of the zero arm, "panic" any of its panics.
deserialize_name_rec(raw, state) ==
    IF state.pos >= Len(raw) THEN [state EXCEPT !.status = "panic"]
    ELSE LET v == B(raw, state.pos)
         IN IF v = 0
            THEN [state EXCEPT
                    !.end_pos = IF state.skipped_to_offset THEN state.end_pos
                                ELSE state.pos + 1,
                    !.status = "done"]
            ELSE IF is_offset_ptr(v)
            THEN IF state.pos + 2 > Len(raw) THEN [state EXCEPT !.status = "panic"]
                 ELSE [state EXCEPT
                         !.pos = U16(v, B(raw, state.pos + 1)) % 16384,
                         !.end_pos = IF state.skipped_to_offset THEN state.end_pos
                                     ELSE state.pos + 2,
                         !.skipped_to_offset = TRUE]
            ELSE LET begin == state.pos + 1
                     end == begin + v
                 IN IF end > Len(raw) THEN [state EXCEPT !.status = "panic"]
                    ELSE IF ~IsUtf8(SubSeq(raw, begin + 1, end))
                    THEN [state EXCEPT !.status = "panic"]
                    ELSE [state EXCEPT
                            !.pos = end,
                            !.end_pos = end,
                            !.labels = Append(state.labels, SubSeq(raw, begin + 1, end))]

\* The recursion run to its end.  What a call does depends on pos alone, so
\* a call at a position already visited never returns: status "diverge".
RECURSIVE deserialize_name_run(_, _, _)
deserialize_name_run(raw, state, visited) ==
    IF state.status # "run" THEN state
    ELSE IF state.pos \in visited THEN [state EXCEPT !.status = "diverge"]
    ELSE deserialize_name_run(raw, deserialize_name_rec(raw, state),
                              visited \cup {state.pos})

\* what deserialize_name returns from the final state
NameResult(s) ==
    [status |-> IF s.status = "done" THEN "ok" ELSE s.status,
     name |-> Join(s.labels), end_pos |-> s.end_pos]

\* deserialize_name: status "ok" | "panic" | "diverge"
deserialize_name(raw, pos) ==
    NameResult(deserialize_name_run(raw, NameDeserializeState(pos), {}))

(***************************************************************************)
(* Record codec                                                            *)
(***************************************************************************)
NoQuestion == [name |-> <<>>, record_type |-> 0, class |-> 0]
NoAnswer ==
    [name |-> <<>>, record_type |-> 0, class |-> 0, time_to_live |-> 0,
     length |-> 0, data |-> <<>>]

\* Question::deserialize after the name n: record_type and class; reading
\* raw[pos] past the end is a panic
QuestionAfterName(raw, n) ==
    IF n.status # "ok" THEN [status |-> n.status, question |-> NoQuestion, pos |-> 0]
    ELSE IF n.end_pos + 4 > Len(raw)
    THEN [status |-> "panic", question |-> NoQuestion, pos |-> 0]
    ELSE [status |-> "ok",
          question |-> [name |-> n.name,
                        record_type |-> U16(B(raw, n.end_pos), B(raw, n.end_pos + 1)),
                        class |-> U16(B(raw, n.end_pos + 2), B(raw, n.end_pos + 3))],
          pos |-> n.end_pos + 4]

\* Question::deserialize
QuestionDeserialize(raw, pos) == QuestionAfterName(raw, deserialize_name(raw, pos))

\* Question::deserialize_questions: the loop with `left` questions to go,
\* then its body once question r is decoded
RECURSIVE deserialize_questions_from(_, _, _, _)
RECURSIVE deserialize_questions_push(_, _, _, _)
deserialize_questions_from(raw, left, pos, acc) ==
    IF left = 0 THEN [status |-> "ok", questions |-> acc, pos |-> pos]
    ELSE deserialize_questions_push(raw, left, acc, QuestionDeserialize(raw, pos))
deserialize_questions_push(raw, left, acc, r) ==
    IF r.status # "ok" THEN [status |-> r.status, questions |-> <<>>, pos |-> 0]
    ELSE deserialize_questions_from(raw, left - 1, r.pos, Append(acc, r.question))

deserialize_questions(raw, qd_count) == deserialize_questions_from(raw, qd_count, 12, <<>>)

\* Serializable for Question
QuestionSerialize(q) ==
    [ok |-> serialize_name(q.name).ok,
     bytes |-> serialize_name(q.name).bytes \o U16Bytes(q.record_type) \o U16Bytes(q.class)]

AnswerFailed(status) == [status |-> status, answer |-> NoAnswer, pos |-> 0]

\* Answer::deserialize after the name n: 4 bytes of data for type 1 and
\* class 1, a panic otherwise
AnswerAfterName(raw, n) ==
    IF n.status # "ok" THEN AnswerFailed(n.status)
    ELSE IF n.end_pos + 10 > Len(raw) THEN AnswerFailed("panic")
    ELSE LET p == n.end_pos
             record_type == U16(B(raw, p), B(raw, p + 1))
             class == U16(B(raw, p + 2), B(raw, p + 3))
         IN IF ~(record_type = 1 /\ class = 1) THEN AnswerFailed("panic")
            ELSE IF p + 14 > Len(raw) THEN AnswerFailed("panic")
            ELSE [status |-> "ok",
                  answer |->
                     [name |-> n.name, record_type |-> record_type, class |-> class,
                      time_to_live |-> U32(B(raw, p + 4), B(raw, p + 5),
                                           B(raw, p + 6), B(raw, p + 7)),
                      length |-> U16(B(raw, p + 8), B(raw, p + 9)),
                      data |-> SubSeq(raw, p + 11, p + 14)],
                  pos |-> p + 14]

\* Answer::deserialize
AnswerDeserialize(raw, pos) == AnswerAfterName(raw, deserialize_name(raw, pos))

\* Answer::deserialize_answers: the loop, then its body once answer r is decoded
RECURSIVE deserialize_answers_from(_, _, _, _)
RECURSIVE deserialize_answers_push(_, _, _, _)
deserialize_answers_from(raw, left, pos, acc) ==
    IF left = 0 THEN [status |-> "ok", answers |-> acc]
    ELSE deserialize_answers_push(raw, left, acc, AnswerDeserialize(raw, pos))
deserialize_answers_push(raw, left, acc, r) ==
    IF r.status # "ok" THEN [status |-> r.status, answers |-> <<>>]
    ELSE deserialize_answers_from(raw, left - 1, r.pos, Append(acc, r.answer))

deserialize_answers(raw, an_count, pos) == deserialize_answers_from(raw, an_count, pos, <<>>)

\* Serializable for Answer
AnswerSerialize(a) ==
    [ok |-> serialize_name(a.name).ok,
     bytes |-> serialize_name(a.name).bytes \o U16Bytes(a.record_type)
               \o U16Bytes(a.class) \o U32Bytes(a.time_to_live) \o U16Bytes(a.length)
               \o a.data]

(***************************************************************************)
(* Message assembly                                                        *)
(***************************************************************************)
NoMessage == [header |-> NoHeader, questions |-> <<>>, answers |-> <<>>]

ZeroBuf == [i \in 1..BufLen |-> 0]

\* DnsMessage::deserialize once header and questions are decoded: the answers
MessageAfterQuestions(header, qs, as) ==
    IF as.status # "ok" THEN [status |-> as.status, msg |-> NoMessage]
    ELSE [status |-> "ok",
          msg |-> [header |-> header, questions |-> qs.questions, answers |-> as.answers]]

\* DnsMessage::deserialize once the header is decoded: the questions
MessageAfterHeader(raw, header, qs) ==
    IF qs.status # "ok" THEN [status |-> qs.status, msg |-> NoMessage]
    ELSE MessageAfterQuestions(header, qs, deserialize_answers(raw, header.an_count, qs.pos))

MessageFromHeader(raw, h) ==
    IF ~h.ok THEN [status |-> "panic", msg |-> NoMessage]
    ELSE MessageAfterHeader(raw, h.header, deserialize_questions(raw, h.header.qd_count))

\* DnsMessage::deserialize: status "ok" | "panic" | "diverge"
DnsMessageDeserialize(raw) == MessageFromHeader(raw, HeaderDeserialize(raw))

\* DnsMessage::copy_from_iter: the records copied one after another from
\* start_pos; ok = FALSE when a record fails to serialize or ends past the
\* buffer (the slice acc.1[begin..end] panics)
RECURSIVE copy_from_iter(_, _)
copy_from_iter(items, content) ==
    IF items = <<>> THEN [ok |-> TRUE, content |-> content]
    ELSE IF ~items[1].ok \/ Len(content) + Len(items[1].bytes) > BufLen
    THEN [ok |-> FALSE, content |-> content]
    ELSE copy_from_iter(Tail(items), content \o items[1].bytes)

RecordsSerialize(records, Ser(_)) == [i \in 1..Len(records) |-> Ser(records[i])]

\* DnsMessage::serialize after the questions: the answers
ContentAfterQuestions(m, qs) ==
    IF qs.ok THEN copy_from_iter(RecordsSerialize(m.answers, AnswerSerialize), qs.content)
    ELSE qs

\* DnsMessage::serialize before the padding: header, questions, answers
DnsMessageContent(m) ==
    ContentAfterQuestions(m, copy_from_iter(RecordsSerialize(m.questions, QuestionSerialize),
                                            HeaderSerialize(m.header)))

\* msg starts as [0; 512]: what is not written stays zero
Padded(c) ==
    [ok |-> c.ok, bytes |-> c.content \o SubSeq(ZeroBuf, 1, BufLen - Len(c.content))]

\* DnsMessage::serialize: 512 bytes, zero padded; ok = FALSE is a panic
DnsMessageSerialize(m) == Padded(DnsMessageContent(m))

(***************************************************************************)
(* Stub and forwarding logic (lib.rs; main.rs holds the same functions)    *)
(***************************************************************************)
\* udp_socket.recv_from(&mut buf): the datagram overwrites the first bytes
\* of the buffer and leaves the rest as it was
recv_from(old, d) ==
    IF Len(d) >= BufLen THEN SubSeq(d, 1, BufLen)
    ELSE d \o SubSeq(old, Len(d) + 1, BufLen)

\* create_response, the DnsMessage it assembles before serializing it
create_response(q) ==
    [header |->
        [packet_id |-> q.header.packet_id,
         qr_ind |-> "Response",
         op_code |-> q.header.op_code,
         is_auth_ans |-> FALSE,
         is_trunc |-> FALSE,
         is_rec_desired |-> q.header.is_rec_desired,
         is_rec_available |-> FALSE,
         r_code |-> IF q.header.op_code.tag = "Query" THEN "NoError" ELSE "NotImplemented",
         qd_count |-> q.header.qd_count,
         an_count |-> Len(q.questions) % 65536,
         ns_count |-> 0,
         ar_count |-> 0],
     questions |-> [i \in 1..Len(q.questions) |->
                      [name |-> q.questions[i].name,
                       record_type |-> q.questions[i].record_type,
                       class |-> q.questions[i].class]],
     answers |-> [i \in 1..Len(q.questions) |->
                    [name |-> q.questions[i].name, record_type |-> 1, class |-> 1,
                     time_to_live |-> 60, length |-> 4, data |-> <<8, 8, 8, 8>>]]]

\* handle_question_fwd: the message built for question q of the query
fwd_msg(q, question) ==
    [header |-> [q.header EXCEPT !.qd_count = 1],
     questions |-> <<question>>,
     answers |-> <<>>]

\* handle_question_fwd: the bytes handed to send_to for the upstream
fwd_datagram(raw, msg_bytes) == raw

\* a plausible slip: the loop leaves out the last question
fwd_more_but_last(q, responses) == Len(responses) + 1 < Len(q.questions)

\* handle_question_fwd: `for q in query.questions` has a question left
fwd_more(q, responses) == Len(responses) < Len(q.questions)

\* handle_question_fwd: the header of the aggregate response
fwd_header(q) ==
    [packet_id |-> q.header.packet_id,
     qr_ind |-> "Response",
     op_code |-> q.header.op_code,
     is_auth_ans |-> FALSE,
     is_trunc |-> FALSE,
     is_rec_desired |-> q.header.is_rec_desired,
     is_rec_available |-> FALSE,
     r_code |-> IF q.header.op_code.tag = "Query" THEN "NoError" ELSE "NotImplemented",
     qd_count |-> q.header.qd_count,
     an_count |-> q.header.qd_count,
     ns_count |-> 0,
     ar_count |-> 0]

\* handle_question_fwd: the fold of the upstream replies into one message
RECURSIVE fwd_fold(_, _)
fwd_fold(acc, responses) ==
    IF responses = <<>> THEN acc
    ELSE fwd_fold([acc EXCEPT !.questions = acc.questions \o responses[1].questions,
                              !.answers = acc.answers \o responses[1].answers],
                  Tail(responses))

fwd_response(q, responses) ==
    fwd_fold([header |-> fwd_header(q), questions |-> <<>>, answers |-> <<>>], responses)

(***************************************************************************)
(* The datagrams the server is fed.  Clients and the upstream are not this *)
(* program: their datagrams are written out byte by byte in the wire       *)
(* format, at their own length (a datagram is seldom 512 bytes long).      *)
(***************************************************************************)
MaxDatagrams == 2

WireHeader(id, b2, b3, qd, an) ==
    U16Bytes(id) \o <<b2, b3>> \o U16Bytes(qd) \o U16Bytes(an) \o <<0, 0, 0, 0>>

NameA == <<97>>
NameBC == <<98, Dot, 99>>
NameRoot == <<>>

WireQA == <<1, 97, 0, 0, 1, 0, 1>>
WireQBC == <<1, 98, 1, 99, 0, 0, 1, 0, 1>>
WireQRoot == <<0, 0, 1, 0, 1>>
WireRRTail == <<0, 1, 0, 1, 0, 0, 0, 60, 0, 4, 1, 2, 3, 4>>

\* one question "a", recursion desired
QueryOne == WireHeader(4660, 1, 0, 1, 0) \o WireQA
\* two questions, "a" and "b.c"
QueryTwo == WireHeader(4661, 1, 0, 2, 0) \o WireQA \o WireQBC
\* one question for the root name
QueryRoot == WireHeader(4662, 1, 0, 1, 0) \o WireQRoot
\* opcode 2 (Status)
QueryStatus == WireHeader(258, 16, 0, 1, 0) \o WireQA
\* a header announcing two questions with only the first behind it
QueryTruncated == WireHeader(4663, 1, 0, 2, 0) \o WireQA
\* RCODE nibble 6
QueryRcode6 == WireHeader(4664, 1, 6, 1, 0) \o WireQA
\* a name that is a pointer to itself
QueryLoop == WireHeader(4665, 1, 0, 1, 0) \o <<192, 12, 0, 1, 0, 1>>
\* a label that is not UTF-8
QueryBadUtf8 == WireHeader(4666, 1, 0, 1, 0) \o <<1, 255, 0, 0, 1, 0, 1>>
\* an answer of type 5 (CNAME)
QueryCname == WireHeader(4667, 1, 0, 0, 1) \o <<1, 97, 0, 0, 5, 0, 1, 0, 0, 0, 60, 0, 4, 1, 2, 3, 4>>

ClientDatagrams ==
    {QueryOne, QueryTwo, QueryRoot, QueryStatus, QueryTruncated, QueryRcode6,
     QueryLoop, QueryBadUtf8, QueryCname}

\* "a" with one answer, the name of the answer written in full
ReplyAnswer == WireHeader(4660, 129, 128, 1, 1) \o WireQA \o <<1, 97, 0>> \o WireRRTail
\* the same, the name of the answer compressed to a pointer to offset 12
ReplyCompressed == WireHeader(4660, 129, 128, 1, 1) \o WireQA \o <<192, 12>> \o WireRRTail
\* NameError, no answer
ReplyNoAnswer == WireHeader(4660, 129, 131, 1, 0) \o WireQA
\* RCODE nibble 9 (NotAuth)
ReplyRcode9 == WireHeader(4660, 129, 137, 1, 0) \o WireQA

UpstreamDatagrams == {ReplyAnswer, ReplyCompressed, ReplyNoAnswer, ReplyRcode9}

(***************************************************************************)
(* The server loop                                                         *)
(***************************************************************************)
Event(kind, data, qidx) == [kind |-> kind, data |-> data, qidx |-> qidx]

Failed(status) == IF status = "diverge" THEN "decode_loop" ELSE "decode"

\* The process stops.  A panic unwinds main; a recursion that never
\* returns either exhausts the stack or, compiled to a loop, spins.
Stop(status, why) ==
    /\ pc' \in (IF status = "diverge" THEN {"crashed", "hung"} ELSE {"crashed"})
    /\ cause' = why

ServerInit ==
    /\ mode \in {"resolving", "forwarding"}
    /\ pc = "recv"
    /\ buf = ZeroBuf
    /\ query = NoMessage
    /\ fwd_responses = <<>>
    /\ fwd_from = <<>>
    /\ io = <<>>
    /\ nrecv = 0
    /\ cause = ""
    /\ datagram = <<>>
    /\ sent_msg = NoMessage

ServerIdle ==
    /\ mode = "resolving"
    /\ pc = "off"
    /\ buf = <<>>
    /\ query = NoMessage
    /\ fwd_responses = <<>>
    /\ fwd_from = <<>>
    /\ io = <<>>
    /\ nrecv = 0
    /\ cause = ""
    /\ datagram = <<>>
    /\ sent_msg = NoMessage

\* run_dns_server, ResolvingServer arm: recv_from, resolve_query
RecvResolving(d) ==
    /\ mode = "resolving"
    /\ pc = "recv"
    /\ nrecv < MaxDatagrams
    /\ buf' = recv_from(buf, d)
    /\ \E q \in {DnsMessageDeserialize(buf')} :
          /\ datagram' = d
          /\ nrecv' = nrecv + 1
          /\ fwd_responses' = <<>>
          /\ fwd_from' = <<>>
          /\ IF q.status # "ok"
             THEN /\ Stop(q.status, Failed(q.status) \o "_query")
                  /\ query' = NoMessage
                  /\ sent_msg' = NoMessage
                  /\ io' = <<>>
             ELSE \E out \in {DnsMessageSerialize(create_response(q.msg))} :
                     /\ query' = q.msg
                     /\ sent_msg' = create_response(q.msg)
                     /\ IF out.ok
                        THEN /\ io' = <<Event("send_client", out.bytes, 0)>>
                             /\ pc' = "recv"
                             /\ cause' = ""
                        ELSE /\ io' = <<>>
                             /\ Stop("panic", "encode")
    /\ UNCHANGED <<mode, nameVars, headerVars, msgVars, encVars>>

\* handle_question_fwd from the head of its loop, with the replies gathered
\* so far and the socket operations made so far: either the next question is
\* forwarded and the server blocks in recv_from, or the aggregate response
\* is folded, serialized and sent to the client.
FwdLoop(raw, q, responses, log) ==
    /\ fwd_responses' = responses
    /\ IF fwd_more(q, responses)
       THEN \E i \in {Len(responses) + 1} :
            \E msg \in {DnsMessageSerialize(fwd_msg(q, q.questions[i]))} :
               /\ sent_msg' = sent_msg
               /\ IF msg.ok
                  THEN /\ io' = Append(log, Event("send_up", fwd_datagram(raw, msg.bytes), i))
                       /\ pc' = "fwd_wait"
                       /\ cause' = ""
                  ELSE /\ io' = log
                       /\ Stop("panic", "encode")
       ELSE \E m \in {fwd_response(q, responses)} :
            \E out \in {DnsMessageSerialize(m)} :
               /\ sent_msg' = m
               /\ IF out.ok
                  THEN /\ io' = Append(log, Event("send_client", out.bytes, 0))
                       /\ pc' = "recv"
                       /\ cause' = ""
                  ELSE /\ io' = log
                       /\ Stop("panic", "encode")

\* run_dns_server, ForwardingServer arm: recv_from, handle_query_fwd up to
\* its first blocking recv_from
RecvForwarding(d) ==
    /\ mode = "forwarding"
    /\ pc = "recv"
    /\ nrecv < MaxDatagrams
    /\ buf' = recv_from(buf, d)
    /\ \E q \in {DnsMessageDeserialize(buf')} :
          /\ datagram' = d
          /\ nrecv' = nrecv + 1
          /\ fwd_from' = <<>>
          /\ IF q.status # "ok"
             THEN /\ Stop(q.status, Failed(q.status) \o "_query")
                  /\ query' = NoMessage
                  /\ sent_msg' = NoMessage
                  /\ fwd_responses' = <<>>
                  /\ io' = <<>>
             ELSE /\ query' = q.msg
                  /\ FwdLoop(buf', q.msg, <<>>, <<>>)
    /\ UNCHANGED <<mode, nameVars, headerVars, msgVars, encVars>>

\* handle_question_fwd: recv_from(&mut fwd_buf) returns the next datagram
\* that reached the socket; the address it came from is thrown away with the
\* result of the call.  The datagram is decoded and pushed, and the loop
\* goes on.
FwdRecv(r, sender) ==
    /\ pc = "fwd_wait"
    /\ fwd_from' = Append(fwd_from, sender)
    /\ \E fwd_buf \in {recv_from(ZeroBuf, r)} :
       \E m \in {DnsMessageDeserialize(fwd_buf)} :
       \E log \in {Append(io, Event("recv_up", r, Len(fwd_responses) + 1))} :
          IF m.status # "ok"
          THEN /\ Stop(m.status, Failed(m.status) \o "_reply")
               /\ io' = log
               /\ UNCHANGED <<fwd_responses, sent_msg>>
          ELSE FwdLoop(buf, query, Append(fwd_responses, m.msg), log)
    /\ UNCHANGED <<mode, buf, query, nrecv, datagram, nameVars, headerVars, msgVars, encVars>>

\* the datagram the blocked recv_from returns is the upstream's reply
RecvUpstream(r) == FwdRecv(r, "upstream")

\* the datagram the blocked recv_from returns was sent by somebody else:
\* the one socket is bound to the serving address and takes every datagram
RecvOther(d) == FwdRecv(d, "other")

(***************************************************************************)
(* deserialize_name_rec, call by call                                      *)
(***************************************************************************)
NameBufLen == 5
NameBytes == {0, 1, 2, 3, 97, 128, 192}

\* Following a cycle of pointers the recursion never ends (and the labels it
\* gathers grow without bound); the model follows it for HopCap hops, one
\* more than any chain of pointers to distinct offsets can have.
HopCap == NameBufLen + 1

NameIdle ==
    /\ n_raw = <<>>
    /\ n_state = NameDeserializeState(0)
    /\ n_hops = 0
    /\ n_first = -1

\* deserialize_name(raw, pos) is entered
NameInit ==
    /\ n_raw \in [1..NameBufLen -> NameBytes]
    /\ \E pos \in 0..NameBufLen : n_state = NameDeserializeState(pos)
    /\ n_hops = 0
    /\ n_first = -1

\* one call of deserialize_name_rec; n_hops counts the pointers followed,
\* n_first keeps the position of the first one
NameCall ==
    /\ n_state.status = "run"
    /\ n_hops < HopCap
    /\ LET next == deserialize_name_rec(n_raw, n_state)
           hop == next.status = "run" /\ is_offset_ptr(B(n_raw, n_state.pos))
       IN /\ n_state' = next
          /\ n_hops' = IF hop THEN n_hops + 1 ELSE n_hops
          /\ n_first' = IF hop /\ n_first = -1 THEN n_state.pos ELSE n_first
    /\ UNCHANGED <<n_raw, serverVars, headerVars, msgVars, encVars>>

(***************************************************************************)
(* Header::serialize then Header::deserialize                              *)
(***************************************************************************)
PacketIds == {0, 4660}
CountValues == {0, 258}
OpCodes == {OpQuery, OpIQuery, OpStatus, OpOther(1), OpOther(3), OpOther(15), OpOther(16), OpOther(255)}

Headers ==
    [packet_id : PacketIds, qr_ind : {"Query", "Response"}, op_code : OpCodes,
     is_auth_ans : BOOLEAN, is_trunc : BOOLEAN, is_rec_desired : BOOLEAN,
     is_rec_available : BOOLEAN, r_code : {RCodes[i] : i \in 1..6},
     qd_count : CountValues, an_count : CountValues, ns_count : CountValues,
     ar_count : CountValues]

HeaderIdle ==
    /\ h_in = NoHeader
    /\ h_wire = <<>>
    /\ h_out = [ok |-> FALSE, header |-> NoHeader]
    /\ h_pc = "off"

HeaderInit ==
    /\ h_in \in Headers
    /\ h_wire = <<>>
    /\ h_out = [ok |-> FALSE, header |-> NoHeader]
    /\ h_pc = "start"

HeaderEncode ==
    /\ h_pc = "start"
    /\ h_wire' = HeaderSerialize(h_in)
    /\ h_pc' = "encoded"
    /\ UNCHANGED <<h_in, h_out, serverVars, nameVars, msgVars, encVars>>

HeaderDecode ==
    /\ h_pc = "encoded"
    /\ h_out' = HeaderDeserialize(h_wire)
    /\ h_pc' = "decoded"
    /\ UNCHANGED <<h_in, h_wire, serverVars, nameVars, msgVars, encVars>>

(***************************************************************************)
(* DnsMessage::serialize then DnsMessage::deserialize                      *)
(***************************************************************************)
MaxRecords == 2

Names == {NameA, NameBC, NameRoot}

Questions ==
    {[name |-> n, record_type |-> 1, class |-> 1] : n \in Names}
    \cup {[name |-> NameA, record_type |-> 258, class |-> 1]}

Answers ==
    {[name |-> n, record_type |-> 1, class |-> 1, time_to_live |-> 60, length |-> 4,
      data |-> <<8, 8, 8, 8>>] : n \in Names}
    \cup {[name |-> NameA, record_type |-> 1, class |-> 1, time_to_live |-> 16909060,
           length |-> 4, data |-> <<1, 2, 3, 4>>]}

SeqsUpTo(S, n) == UNION {[1..k -> S] : k \in 0..n}

MessageHeaders ==
    {[NoHeader EXCEPT !.packet_id = 4660, !.is_rec_desired = TRUE],
     [NoHeader EXCEPT !.packet_id = 258, !.qr_ind = "Response", !.op_code = OpOther(5),
                      !.is_rec_available = TRUE, !.r_code = "Refused"]}

\* well-formed messages: the header counts are the list lengths
Messages ==
    {[header |-> [h EXCEPT !.qd_count = Len(qs), !.an_count = Len(as)],
      questions |-> qs, answers |-> as] :
        h \in MessageHeaders, qs \in SeqsUpTo(Questions, MaxRecords),
        as \in SeqsUpTo(Answers, MaxRecords)}

MessageIdle ==
    /\ m_in = NoMessage
    /\ m_wire = <<>>
    /\ m_out = [status |-> "none", msg |-> NoMessage]
    /\ m_pc = "off"

MessageInit ==
    /\ m_in \in Messages
    /\ m_wire = <<>>
    /\ m_out = [status |-> "none", msg |-> NoMessage]
    /\ m_pc = "start"

MessageEncode ==
    /\ m_pc = "start"
    /\ \E out \in {DnsMessageSerialize(m_in)} :
          IF out.ok
          THEN m_wire' = out.bytes /\ m_pc' = "encoded"
          ELSE m_wire' = <<>> /\ m_pc' = "panicked"
    /\ UNCHANGED <<m_in, m_out, serverVars, nameVars, headerVars, encVars>>

MessageDecode ==
    /\ m_pc = "encoded"
    /\ m_out' = DnsMessageDeserialize(m_wire)
    /\ m_pc' = "decoded"
    /\ UNCHANGED <<m_in, m_wire, serverVars, nameVars, headerVars, encVars>>

(***************************************************************************)
(* serialize_name on its own                                               *)
(***************************************************************************)
MaxNameLen == 4

NameChars == {97, 98, Dot}

Repeat(b, n) == [i \in 1..n |-> b]

\* labels around the limits of the length byte
LongLabels == {Repeat(97, 63), Repeat(97, 64), Repeat(97, 255), Repeat(97, 256)}

\* "github.com"
NameGithubCom == <<103, 105, 116, 104, 117, 98, Dot, 99, 111, 109>>

\* the strings handed to serialize_name: every string of up to MaxNameLen
\* bytes over NameChars (the empty string, leading, trailing and doubled
\* dots among them), "github.com", a two-byte character, long labels
SerializeNameInputs ==
    SeqsUpTo(NameChars, MaxNameLen)
    \cup {NameGithubCom, <<195, 169>>}
    \cup LongLabels
    \cup {l \o <<Dot, 99>> : l \in LongLabels}

SerializeNameIdle ==
    /\ s_in = <<>>
    /\ s_out = [ok |-> FALSE, bytes |-> <<>>]
    /\ s_pc = "off"

SerializeNameInit ==
    /\ s_in \in SerializeNameInputs
    /\ s_out = [ok |-> FALSE, bytes |-> <<>>]
    /\ s_pc = "start"

\* serialize_name(s_in) is called; it returns the bytes or panics
SerializeNameCall ==
    /\ s_pc = "start"
    /\ \E out \in {serialize_name(s_in)} :
          /\ s_out' = out
          /\ s_pc' = IF out.ok THEN "encoded" ELSE "panicked"
    /\ UNCHANGED <<s_in, serverVars, nameVars, headerVars, msgVars>>

(***************************************************************************)
(* Specifications                                                          *)
(***************************************************************************)
Init == ServerInit /\ NameIdle /\ HeaderIdle /\ MessageIdle /\ SerializeNameIdle

Next ==
    \/ \E d \in ClientDatagrams : RecvResolving(d)
    \/ \E d \in ClientDatagrams : RecvForwarding(d)
    \/ \E r \in UpstreamDatagrams : RecvUpstream(r)
    \/ \E d \in ClientDatagrams : RecvOther(d)

Spec == Init /\ [][Next]_vars

NameSpecInit == ServerIdle /\ NameInit /\ HeaderIdle /\ MessageIdle /\ SerializeNameIdle
NameSpec == NameSpecInit /\ [][NameCall]_vars

HeaderSpecInit == ServerIdle /\ NameIdle /\ HeaderInit /\ MessageIdle /\ SerializeNameIdle
HeaderNext == HeaderEncode \/ HeaderDecode
HeaderSpec == HeaderSpecInit /\ [][HeaderNext]_vars

MessageSpecInit == ServerIdle /\ NameIdle /\ HeaderIdle /\ MessageInit /\ SerializeNameIdle
MessageNext == MessageEncode \/ MessageDecode
MessageSpec == MessageSpecInit /\ [][MessageNext]_vars

SerializeNameSpecInit == ServerIdle /\ NameIdle /\ HeaderIdle /\ MessageIdle /\ SerializeNameInit
SerializeNameSpec == SerializeNameSpecInit /\ [][SerializeNameCall]_vars

(***************************************************************************)
(* Properties                                                              *)
(***************************************************************************)
Last(log) == log[Len(log)]
Responded == io # <<>> /\ Last(io).kind = "send_client"
DecodeStops == {"decode_query", "decode_reply"}

\* C1: a datagram whose decoding fails only aborts the handling of that
\* datagram; the process never stops because of a malformed datagram.
C1_MalformedDatagramIsDropped ==
    ~(pc = "crashed" /\ cause \in DecodeStops)

\* C2: name decoding stops after a bounded number of pointer hops: no run
\* of deserialize_name follows more pointers than the buffer has bytes.
C2_BoundedPointerHops == n_hops <= Len(n_raw)

\* C3: when deserialize_name has met its first pointer at position p, the
\* end position it returns is p + 2, whatever is read at the target.
C3_EndPosIsFirstPointerPlus2 ==
    (n_state.status = "done" /\ n_first # -1) => n_state.end_pos = n_first + 2

\* C4: deserialize(serialize(m)) = m for every well-formed message m with
\* 0 to 2 questions and 0 to 2 A/IN answers.
C4_MessageRoundTrip ==
    /\ m_pc # "panicked"
    /\ m_pc = "decoded" => m_out = [status |-> "ok", msg |-> m_in]

C6_ForwardIsSingleton ==
    \A k \in 1..Len(io) :
        io[k].kind = "send_up" =>
            /\ HeaderDeserialize(io[k].data)
                 = [ok |-> TRUE, header |-> [query.header EXCEPT !.qd_count = 1]]
            /\ QuestionDeserialize(io[k].data, 12).status = "ok"
            /\ QuestionDeserialize(io[k].data, 12).question = query.questions[io[k].qidx]

\* C7: every message serialized as a client response has qd_count equal to
\* the number of its questions and an_count to the number of its answers.
C7_CountsMatchRecords ==
    sent_msg # NoMessage =>
        /\ sent_msg.header.qd_count = Len(sent_msg.questions)
        /\ sent_msg.header.an_count = Len(sent_msg.answers)

ResolvedAnswer(question) ==
    [name |-> question.name, record_type |-> 1, class |-> 1, time_to_live |-> 60,
     length |-> 4, data |-> <<8, 8, 8, 8>>]

ResolvedAs(q, r) ==
    /\ r.status = "ok"
    /\ r.msg.header.packet_id = q.header.packet_id
    /\ r.msg.header.qr_ind = "Response"
    /\ r.msg.questions = q.questions
    /\ r.msg.answers = [i \in 1..Len(q.questions) |-> ResolvedAnswer(q.questions[i])]
    /\ r.msg.header.an_count = Len(q.questions)
    /\ r.msg.header.r_code = (IF q.header.op_code = OpQuery THEN "NoError"
                              ELSE "NotImplemented")

\* C8: in resolving mode the response sent for a decodable query reads as:
\* the query's packet id, QR = Response, the query's questions in order,
\* one answer per question (its name, type 1, class 1, TTL 60, 8.8.8.8),
\* answer_count = number of questions, RCODE NoError for opcode Query and
\* NotImplemented otherwise.
C8_ResolvingResponse ==
    (mode = "resolving" /\ Responded) =>
        ResolvedAs(query, DnsMessageDeserialize(Last(io).data))

\* what a server that has received nothing before makes of the datagram
FreshQuery == DnsMessageDeserialize(recv_from(ZeroBuf, datagram))

FreshResponse(f) ==
    IF mode = "resolving" THEN DnsMessageSerialize(create_response(f.msg))
    ELSE DnsMessageSerialize(fwd_response(f.msg, fwd_responses))

SameAsFresh(f) ==
    /\ Responded => (f.status = "ok" /\ Last(io).data = FreshResponse(f).bytes)
    /\ cause \in {"decode_query", "decode_loop_query"} => f.status # "ok"

\* C9: the response to a datagram is the one a server gives that received
\* nothing before it (given, in forwarding mode, the same upstream replies).
C9_ResponseIndependentOfHistory == nrecv > 0 => SameAsFresh(FreshQuery)

OpCodeOutsideNamed(op_code) == op_code.tag = "Other" => op_code.v \notin 0..2
OpCodeFourBit(op_code) == op_code.tag = "Other" => op_code.v \in 3..15

\* C10 as stated: decode(encode(h)) = h for every header whose opcode is
\* Query, IQuery, Status or Other(v) with any raw value v outside 0..2.
C10_HeaderRoundTripAnyRaw ==
    (h_pc = "decoded" /\ OpCodeOutsideNamed(h_in.op_code)) =>
        h_out = [ok |-> TRUE, header |-> h_in]

\* C10 as amended: decode(encode(h)) = h for every header whose opcode is
\* Query, IQuery, Status or Other(v) with v a 4-bit raw value in 3..15.
C10_HeaderRoundTrip ==
    (h_pc = "decoded" /\ OpCodeFourBit(h_in.op_code)) =>
        h_out = [ok |-> TRUE, header |-> h_in]

C10_RawOpCodeDecoded ==
    /\ h_pc = "decoded"
    /\ h_in.op_code = OpOther(15)
    /\ h_in.r_code = "Refused"
    /\ h_in.qr_ind = "Response"
    /\ h_in.is_rec_available /\ h_in.is_rec_desired
    /\ h_in.packet_id = 4660
    /\ h_in.an_count = 258
    /\ h_out.header = h_in

NonEmptyLabels(s) ==
    /\ s # <<>>
    /\ s[1] # Dot
    /\ s[Len(s)] # Dot
    /\ \A i \in 1..(Len(s) - 1) : ~(s[i] = Dot /\ s[i + 1] = Dot)

\* the length of the label that starts behind position i of s (i = 0, or
\* the position of a dot)
LabelLenBehind(s, i) ==
    CHOOSE n \in 0..(Len(s) - i) :
        /\ i + n = Len(s) \/ s[i + n + 1] = Dot
        /\ \A j \in 1..n : s[i + j] # Dot

LabelsFitByte(s) ==
    \A i \in 0..Len(s) : (i = 0 \/ s[i] = Dot) => LabelLenBehind(s, i) <= 255

\* The wire form the claim describes.  With k labels the name has k - 1
\* dots, so "sum of label lengths + k + 1" is Len(s) + 2: the length byte of
\* the first label, then every byte of the name with each dot replaced by
\* the length byte of the label behind it, then one zero byte.
NameWireAsStated(s, out) ==
    /\ out.ok
    /\ Len(out.bytes) = Len(s) + 2
    /\ out.bytes[1] = LabelLenBehind(s, 0)
    /\ \A i \in 1..Len(s) :
          out.bytes[i + 1] = (IF s[i] = Dot THEN LabelLenBehind(s, i) ELSE s[i])
    /\ out.bytes[Len(s) + 2] = 0

C12_RootNameIsOneByte ==
    (s_pc = "encoded" /\ s_in = <<>>) => s_out.bytes = <<0>>

\* C13: every datagram decoded as the upstream reply to a forwarded
\* question was sent by the upstream resolver; a datagram from any other
\* sender is never consumed as a reply.
C13_RepliesComeFromUpstream ==
    \A i \in 1..Len(fwd_from) : fwd_from[i] = "upstream"

====
